---- MODULE Spec2Model ----
(***************************************************************************)
(* app/llms.py: the credential snapshot (st.session_state.env_vars), the   *)
(* process environment (os.environ), switch_environment /                  *)
(* restore_environment, the six provider constructors, the registry        *)
(* LLM_CONFIG and the factory create_llm.                                  *)
(*                                                                         *)
(* Strings that the code parses (selectors, provider names, model          *)
(* identifiers) are sequences of one-character strings.  Credential values *)
(* and error messages are never parsed and are TLA+ strings.               *)
(***************************************************************************)
EXTENDS Integers, Sequences, FiniteSets, TLC

VARIABLES environ, env_vars, last, initial, calls, models

vars == <<environ, env_vars, last, initial, calls, models>>

-----------------------------------------------------------------------------
(* Values *)

\* Python's None: the value of os.getenv for a variable that is not set, and
\* of a snapshot entry whose credential is absent.  A variable of os.environ
\* that is not set is mapped to None.
None == "None"

\* No client: what a call that raises hands back, as a value of the clients' kind.
NoLLM == [class |-> "NoneType"]

\* The snapshot before load_secrets_fron_env has created it
\* ("env_vars" not in st.session_state).
NoSnapshot == << >>

\* A test that takes every value but None as set (if value is not None:).
TruthyNotNone(value) == value # None

\* if value:  (None and the empty string are falsy)
Truthy(value) == value # None /\ value # ""

\* The keys of st.session_state.env_vars.
SnapshotKeys ==
    {"OPENAI_API_KEY", "OPENAI_API_BASE", "GROQ_API_KEY", "LMSTUDIO_API_BASE",
     "ANTHROPIC_API_KEY", "OLLAMA_HOST", "GOOGLE_API_KEY"}

\* A variable of the process environment that the module never names.
OtherVar == "HOME"

EnvNames == SnapshotKeys \cup {OtherVar}

DefaultApiBase == "https://api.openai.com/v1/"

OllamaSentinel == "ollama"

LMStudioSentinel == "lm-studio"

-----------------------------------------------------------------------------
(* Character strings *)

Sep == <<":", " ">>

StartsWith(s, p) == Len(s) >= Len(p) /\ SubSeq(s, 1, Len(p)) = p

\* str.split(sep) for a non-empty sep: pieces between the non-overlapping
\* occurrences of sep, found left to right.
RECURSIVE SplitRec(_, _, _)
SplitRec(s, sep, cur) ==
    IF s = << >> THEN <<cur>>
    ELSE IF StartsWith(s, sep)
         THEN <<cur>> \o SplitRec(SubSeq(s, Len(sep) + 1, Len(s)), sep, << >>)
         ELSE SplitRec(Tail(s), sep, Append(cur, Head(s)))

Split(s, sep) == SplitRec(s, sep, << >>)

-----------------------------------------------------------------------------
(* os.environ and the snapshot.  A state st is [env, vars]. *)

Getenv(env, key) == env[key]

GetenvDefault(env, key, default) == IF env[key] = None THEN default ELSE env[key]

\* load_dotenv(override=True): every variable of the file is set, replacing
\* the value the environment had.
LoadDotenv(env, file) ==
    [n \in DOMAIN env |-> IF n \in DOMAIN file THEN file[n] ELSE env[n]]

load_secrets_fron_env(st, file) ==
    LET env == LoadDotenv(st.env, file)
    IN  IF st.vars = NoSnapshot
        THEN [env  |-> env,
              vars |-> [n \in SnapshotKeys |->
                          IF n = "OPENAI_API_BASE"
                          THEN GetenvDefault(env, n, DefaultApiBase)
                          ELSE Getenv(env, n)]]
        ELSE [env |-> env, vars |-> st.vars]

\* A switch that sets the variables and forgets the snapshot.
switch_environment_env_only(st, new_env_vars) ==
    LET set == {key \in DOMAIN new_env_vars : new_env_vars[key] # None}
    IN  [env  |-> [n \in DOMAIN st.env |->
                     IF n \in set THEN new_env_vars[n] ELSE st.env[n]],
         vars |-> st.vars]

switch_environment(st, new_env_vars) ==
    LET set == {key \in DOMAIN new_env_vars : new_env_vars[key] # None}
    IN  [env  |-> [n \in DOMAIN st.env |->
                     IF n \in set THEN new_env_vars[n] ELSE st.env[n]],
         vars |-> [n \in DOMAIN st.vars \cup set |->
                     IF n \in set THEN new_env_vars[n] ELSE st.vars[n]]]

\* A restore that makes the environment a copy of the snapshot: it also
\* removes the variables the snapshot does not name.
restore_environment_exact(st) ==
    [env  |-> [n \in DOMAIN st.env |->
                 IF n \in DOMAIN st.vars THEN st.vars[n] ELSE None],
     vars |-> st.vars]

\* A restore that sets the present values and deletes nothing.
restore_environment_no_delete(st) ==
    [env  |-> [n \in DOMAIN st.env |->
                 IF n \in DOMAIN st.vars /\ st.vars[n] # None
                 THEN st.vars[n]
                 ELSE st.env[n]],
     vars |-> st.vars]

restore_environment(st) ==
    [env  |-> [n \in DOMAIN st.env |->
                 IF n \in DOMAIN st.vars
                 THEN IF st.vars[n] # None
                      THEN st.vars[n]
                      ELSE None          \* del os.environ[key] if it is set
                 ELSE st.env[n]],
     vars |-> st.vars]

safe_pop_env_var(st, key) ==
    [env |-> [st.env EXCEPT ![key] = None], vars |-> st.vars]

-----------------------------------------------------------------------------------------------------------------------------------------------------
(* Provider constructors.  Each yields the state it leaves and what it did:
   llm, the client it returns (NoLLM when it raises); error, the message of
   the ValueError it raises (None when it returns); trace, the functions it
   ran, in order; written, the variables its switch_environment set; read,
   the values its os.getenv calls returned. *)

Return(st, llm, trace, written, read) ==
    [st |-> st, llm |-> llm, error |-> None, trace |-> trace,
     written |-> written, read |-> read]

Raise(st, error, trace, written, read) ==
    [st |-> st, llm |-> NoLLM, error |-> error, trace |-> trace,
     written |-> written, read |-> read]

\* The pairs of new_env_vars that switch_environment does not skip.
Present(new_env_vars) ==
    [key \in {k \in DOMAIN new_env_vars : new_env_vars[k] # None} |-> new_env_vars[key]]

create_openai_llm(st, model, temperature) ==
    LET new_env_vars == ("OPENAI_API_KEY" :> st.vars["OPENAI_API_KEY"]) @@
                        ("OPENAI_API_BASE" :> st.vars["OPENAI_API_BASE"])
        s1 == switch_environment(st, new_env_vars)
        api_key == Getenv(s1.env, "OPENAI_API_KEY")
        api_base == Getenv(s1.env, "OPENAI_API_BASE")
        trace == <<"create_openai_llm", "switch_environment">>
        read == ("OPENAI_API_KEY" :> api_key) @@ ("OPENAI_API_BASE" :> api_base)
    IN  IF Truthy(api_key)
        THEN Return(s1, [class |-> "LLM", model |-> model,
                         temperature |-> temperature, base_url |-> api_base],
                    trace, Present(new_env_vars), read)
        ELSE Raise(s1, "OpenAI API key not set in .env file",
                   trace, Present(new_env_vars), read)

create_anthropic_llm(st, model, temperature) ==
    LET new_env_vars == ("ANTHROPIC_API_KEY" :> st.vars["ANTHROPIC_API_KEY"])
        s1 == switch_environment(st, new_env_vars)
        api_key == Getenv(s1.env, "ANTHROPIC_API_KEY")
        trace == <<"create_anthropic_llm", "switch_environment">>
        read == ("ANTHROPIC_API_KEY" :> api_key)
    IN  IF Truthy(api_key)
        THEN Return(s1, [class |-> "ChatAnthropic", anthropic_api_key |-> api_key,
                         model_name |-> model, temperature |-> temperature,
                         max_tokens |-> 4095],
                    trace, Present(new_env_vars), read)
        ELSE Raise(s1, "Anthropic API key not set in .env file",
                   trace, Present(new_env_vars), read)

create_groq_llm(st, model, temperature) ==
    LET new_env_vars == ("GROQ_API_KEY" :> st.vars["GROQ_API_KEY"])
        s1 == switch_environment(st, new_env_vars)
        api_key == Getenv(s1.env, "GROQ_API_KEY")
        trace == <<"create_groq_llm", "switch_environment">>
        read == ("GROQ_API_KEY" :> api_key)
    IN  IF Truthy(api_key)
        THEN Return(s1, [class |-> "ChatGroq", groq_api_key |-> api_key,
                         model_name |-> model, temperature |-> temperature,
                         max_tokens |-> 4095],
                    trace, Present(new_env_vars), read)
        ELSE Raise(s1, "Groq API key not set in .env file",
                   trace, Present(new_env_vars), read)

create_google_llm(st, model, temperature) ==
    LET new_env_vars == ("GOOGLE_API_KEY" :> st.vars["GOOGLE_API_KEY"])
        s1 == switch_environment(st, new_env_vars)
        api_key == Getenv(s1.env, "GOOGLE_API_KEY")
        trace == <<"create_google_llm", "switch_environment">>
        read == ("GOOGLE_API_KEY" :> api_key)
    IN  IF Truthy(api_key)
        THEN Return(s1, [class |-> "ChatGoogleGenerativeAI", google_api_key |-> api_key,
                         model |-> model, temperature |-> temperature,
                         convert_system_message_to_human |-> TRUE],
                    trace, Present(new_env_vars), read)
        ELSE Raise(s1, "Google API key not set in .env file",
                   trace, Present(new_env_vars), read)

create_ollama_llm(st, model, temperature) ==
    LET host == st.vars["OLLAMA_HOST"]
        new_env_vars == ("OPENAI_API_KEY" :> OllamaSentinel) @@
                        ("OPENAI_API_BASE" :> host)
        s1 == switch_environment(st, new_env_vars)
    IN  IF Truthy(host)
        THEN Return(s1, [class |-> "LLM", model |-> model,
                         temperature |-> temperature, base_url |-> host],
                    <<"create_ollama_llm", "switch_environment">>,
                    Present(new_env_vars), << >>)
        ELSE Raise(st, "Ollama Host is not set in .env file",
                   <<"create_ollama_llm">>, << >>, << >>)

create_lmstudio_llm(st, model, temperature) ==
    LET new_env_vars == ("OPENAI_API_KEY" :> LMStudioSentinel) @@
                        ("OPENAI_API_BASE" :> st.vars["LMSTUDIO_API_BASE"])
        s1 == switch_environment(st, new_env_vars)
        api_base == Getenv(s1.env, "OPENAI_API_BASE")
        trace == <<"create_lmstudio_llm", "switch_environment">>
        read == ("OPENAI_API_BASE" :> api_base)
    IN  IF Truthy(api_base)
        THEN Return(s1, [class |-> "ChatOpenAI", openai_api_key |-> LMStudioSentinel,
                         openai_api_base |-> api_base, temperature |-> temperature,
                         max_tokens |-> 4095],
                    trace, Present(new_env_vars), read)
        ELSE Raise(s1, "LM Studio API base not set in .env file",
                   trace, Present(new_env_vars), read)

-----
(* The registry and the factory *)

OpenAI == <<"O", "p", "e", "n", "A", "I">>

Groq == <<"G", "r", "o", "q">>

Google == <<"G", "o", "o", "g", "l", "e">>

Ollama == <<"O", "l", "l", "a", "m", "a">>

Anthropic == <<"A", "n", "t", "h", "r", "o", "p", "i", "c">>

LMStudio == <<"L", "M", " ", "S", "t", "u", "d", "i", "o">>

\* The "create_llm" entry of each provider of LLM_CONFIG, by the name of the
\* constructor it refers to.
LLM_CONFIG ==
    (OpenAI    :> [create_llm |-> "create_openai_llm"]) @@
    (Groq      :> [create_llm |-> "create_groq_llm"]) @@
    (Google    :> [create_llm |-> "create_google_llm"]) @@
    (Ollama    :> [create_llm |-> "create_ollama_llm"]) @@
    (Anthropic :> [create_llm |-> "create_anthropic_llm"]) @@
    (LMStudio  :> [create_llm |-> "create_lmstudio_llm"])

\* The keys of LLM_CONFIG, in the order of the dictionary.
ProviderOrder == <<OpenAI, Groq, Google, Ollama, Anthropic, LMStudio>>

Comma == <<",">>

\* os.getenv(key, default) on the environment the module is imported in, a
\* function from the names that are set to their values.
GetenvAtImport(import_env, key, default) ==
    IF key \in DOMAIN import_env THEN import_env[key] ELSE default

\* LLM_CONFIG[provider]["models"], as the module computes them at import.
ModelLists(import_env) ==
    (OpenAI :>
        IF GetenvAtImport(import_env, "OPENAI_PROXY_MODELS", << >>) # << >>
        THEN Split(GetenvAtImport(import_env, "OPENAI_PROXY_MODELS", << >>), Comma)
        ELSE <<<<"g", "p", "t", "-", "4", "o">>,
             <<"g", "p", "t", "-", "4", "o", "-", "m", "i", "n", "i">>,
             <<"g", "p", "t", "-", "3", ".", "5", "-", "t", "u", "r", "b", "o">>,
             <<"g", "p", "t", "-", "4", "-", "t", "u", "r", "b", "o">>>>) @@
    (Groq :> <<<<"l", "l", "a", "m", "a", "3", "-", "8", "b", "-", "8", "1", "9", "2">>,
             <<"l", "l", "a", "m", "a", "3", "-", "7", "0", "b", "-", "8", "1", "9", "2">>,
             <<"m", "i", "x", "t", "r", "a", "l", "-", "8", "x", "7", "b", "-", "3", "2", "7", "6", "8">>>>) @@
    (Google :> <<<<"g", "e", "m", "i", "n", "i", "-", "1", ".", "5", "-", "p", "r", "o">>,
               <<"g", "e", "m", "i", "n", "i", "-", "1", ".", "5", "-", "f", "l", "a", "s", "h">>>>) @@
    (Ollama :>
        IF GetenvAtImport(import_env, "OLLAMA_MODELS", << >>) # << >>
        THEN Split(GetenvAtImport(import_env, "OLLAMA_MODELS", << >>), Comma)
        ELSE << >>) @@
    (Anthropic :> <<<<"c", "l", "a", "u", "d", "e", "-", "3", "-", "5", "-", "s", "o", "n", "n", "e", "t", "-", "2", "0", "2", "4", "0", "6", "2", "0">>>>) @@
    (LMStudio :> <<<<"l", "m", "s", "-", "d", "e", "f", "a", "u", "l", "t">>>>)

\* The (provider, model) pairs of the registry: for provider in
\* LLM_CONFIG.keys() for model in LLM_CONFIG[provider]["models"].
RECURSIVE ProviderModelPairs(_, _)
ProviderModelPairs(lists, i) ==
    IF i > Len(ProviderOrder) THEN << >>
    ELSE [j \in 1..Len(lists[ProviderOrder[i]]) |->
             <<ProviderOrder[i], lists[ProviderOrder[i]][j]>>]
         \o ProviderModelPairs(lists, i + 1)

\* f"{provider}: {model}" for each pair.
llm_providers_and_models(lists) ==
    LET pairs == ProviderModelPairs(lists, 1)
    IN  [k \in 1..Len(pairs) |-> pairs[k][1] \o Sep \o pairs[k][2]]

\* create_llm_func(model, temperature)
CallConstructor(create_llm_func, st, model, temperature) ==
    CASE create_llm_func = "create_openai_llm" -> create_openai_llm(st, model, temperature)
      [] create_llm_func = "create_anthropic_llm" -> create_anthropic_llm(st, model, temperature)
      [] create_llm_func = "create_groq_llm" -> create_groq_llm(st, model, temperature)
      [] create_llm_func = "create_google_llm" -> create_google_llm(st, model, temperature)
      [] create_llm_func = "create_ollama_llm" -> create_ollama_llm(st, model, temperature)
      [] create_llm_func = "create_lmstudio_llm" -> create_lmstudio_llm(st, model, temperature)

NotEnoughValues == "not enough values to unpack (expected 2, got 1)"

TooManyValues == "too many values to unpack (expected 2)"

NotRecognized == "LLM provider is not recognized or not supported"

\* A lookup that falls back to the first provider of the registry.
create_llm_func_fallback(provider) ==
    IF provider \in DOMAIN LLM_CONFIG
    THEN LLM_CONFIG[provider].create_llm
    ELSE LLM_CONFIG[OpenAI].create_llm

\* LLM_CONFIG.get(provider, {}).get("create_llm")
create_llm_func(provider) ==
    IF provider \in DOMAIN LLM_CONFIG
    THEN LLM_CONFIG[provider].create_llm
    ELSE None

\* A factory that restores the environment on every path out of the constructor.
ConstructAndRestoreAlways(st, func, model, temperature) ==
    IF func # None
    THEN LET r == CallConstructor(func, st, model, temperature)
         IN  [r EXCEPT !.st = restore_environment(r.st),
                       !.trace = Append(r.trace, "restore_environment")]
    ELSE Raise(st, NotRecognized, << >>, << >>, << >>)

\* if create_llm_func: llm = create_llm_func(model, temperature);
\* restore_environment(); return llm -- else: raise ValueError.  An exception
\* of the constructor leaves the function before restore_environment().
ConstructAndRestore(st, func, model, temperature) ==
    IF func # None
    THEN LET r == CallConstructor(func, st, model, temperature)
         IN  IF r.error = None
             THEN Return(restore_environment(r.st), r.llm,
                         Append(r.trace, "restore_environment"), r.written, r.read)
             ELSE r
    ELSE Raise(st, NotRecognized, << >>, << >>, << >>)

\* A factory that takes a selector without separator as a provider name with
\* an empty model identifier.
create_llm_lenient(st, provider_and_model, temperature) ==
    LET parts == Split(provider_and_model, Sep)
    IN  IF Len(parts) > 2 THEN Raise(st, TooManyValues, << >>, << >>, << >>)
        ELSE ConstructAndRestore(st, create_llm_func(parts[1]),
                                 IF Len(parts) < 2 THEN << >> ELSE parts[2],
                                 temperature)

\* A factory that splits at the first separator only (split(": ", 1)).
create_llm_maxsplit(st, provider_and_model, temperature) ==
    LET parts == Split(provider_and_model, Sep)
    IN  IF Len(parts) < 2 THEN Raise(st, NotEnoughValues, << >>, << >>, << >>)
        ELSE ConstructAndRestore(st, create_llm_func(parts[1]),
                                 SubSeq(provider_and_model, Len(parts[1]) + 3,
                                        Len(provider_and_model)),
                                 temperature)

\* provider, model = provider_and_model.split(": ") raises ValueError unless
\* the split yields exactly two parts.
create_llm(st, provider_and_model, temperature) ==
    LET parts == Split(provider_and_model, Sep)
    IN  IF Len(parts) < 2 THEN Raise(st, NotEnoughValues, << >>, << >>, << >>)
        ELSE IF Len(parts) > 2 THEN Raise(st, TooManyValues, << >>, << >>, << >>)
        ELSE ConstructAndRestore(st, create_llm_func(parts[1]), parts[2], temperature)

-----------------------------------------------------------------------------
(* Inputs *)

\* The values each variable may have in the process environment when the
\* session starts.
StartValues ==
    [OPENAI_API_KEY    |-> {None, "", "sk-x"},
     OPENAI_API_BASE   |-> {None, "https://proxy.example/v1"},
     GROQ_API_KEY      |-> {None, "gsk-x"},
     LMSTUDIO_API_BASE |-> {None, "http://localhost:1234/v1"},
     ANTHROPIC_API_KEY |-> {None, "sk-ant-x"},
     OLLAMA_HOST       |-> {None, "http://localhost:11434"},
     GOOGLE_API_KEY    |-> {None, "AIza-x"},
     HOME              |-> {"/root"}]

Environments ==
    {[OPENAI_API_KEY |-> a, OPENAI_API_BASE |-> b, GROQ_API_KEY |-> c,
      LMSTUDIO_API_BASE |-> d, ANTHROPIC_API_KEY |-> e, OLLAMA_HOST |-> f,
      GOOGLE_API_KEY |-> g, HOME |-> h] :
        a \in StartValues.OPENAI_API_KEY, b \in StartValues.OPENAI_API_BASE,
        c \in StartValues.GROQ_API_KEY, d \in StartValues.LMSTUDIO_API_BASE,
        e \in StartValues.ANTHROPIC_API_KEY, f \in StartValues.OLLAMA_HOST,
        g \in StartValues.GOOGLE_API_KEY, h \in StartValues.HOME}

\* The start environments of the runs that call the environment operations
\* directly: those that set no cloud key besides OpenAI's.
PlainEnvironments ==
    {e \in Environments :
        /\ e.GROQ_API_KEY = None
        /\ e.ANTHROPIC_API_KEY = None
        /\ e.GOOGLE_API_KEY = None}

\* The .env files load_dotenv may find.
BlankDotenv ==
    ("OPENAI_API_KEY" :> "sk-file") @@ ("OLLAMA_HOST" :> "") @@
    ("GROQ_API_KEY" :> "") @@ ("ANTHROPIC_API_KEY" :> "") @@
    ("GOOGLE_API_KEY" :> "") @@ ("LMSTUDIO_API_BASE" :> "")

DotenvFiles == {<< >>, BlankDotenv}

UnknownProvider == <<"M", "i", "s", "t", "r", "a", "l">>

ModelIds == {<<"m">>}

\* The selectors handed to create_llm: every provider of the registry and an
\* unknown one with each model identifier, and selectors without the
\* separator or with two of them.
Selectors ==
    {p \o Sep \o m : p \in DOMAIN LLM_CONFIG \cup {UnknownProvider}, m \in ModelIds}
    \cup {<< >>, OpenAI \o <<":">> \o <<"m">>, Ollama \o <<" ">> \o <<"m">>,
          OpenAI \o Sep \o <<"a">> \o Sep \o <<"b">>,
          OpenAI \o Sep \o <<"g", "p", "t", "-", "4", "o">>}

\* The overrides handed to switch_environment when it is called directly.
Overrides ==
    UNION {[keys -> {None, "", "sk-new"}] : keys \in SUBSET {"OPENAI_API_KEY", OtherVar}}

\* The variables handed to safe_pop_env_var.
PoppedVars == {"OPENAI_API_KEY", "OPENAI_API_BASE", OtherVar}

\* Temperatures, in hundredths.
\* Values of OPENAI_PROXY_MODELS and OLLAMA_MODELS when the module is imported.
ProxyModelsValues ==
    {<< >>, <<"a", ",">>, <<"f", "t", ":", " ", "a", ",", "b">>}

OllamaModelsValues ==
    {<<"l", "l", "a", "m", "a", "3", ":", "8", "b">>, <<"x", ":", " ", "y", ",", "z">>}

ImportEnvironments ==
    {<< >>}
    \cup {"OPENAI_PROXY_MODELS" :> v : v \in ProxyModelsValues}
    \cup {"OLLAMA_MODELS" :> v : v \in OllamaModelsValues}
    \cup {("OPENAI_PROXY_MODELS" :> v) @@ ("OLLAMA_MODELS" :> w) :
             v \in ProxyModelsValues, w \in OllamaModelsValues}

DefaultTemperature == 15

Temperatures == {DefaultTemperature, 20}

-----------------------------------------------------------------------------
(* The session *)

State == [env |-> environ, vars |-> env_vars]

\* The create_llm calls that run at the same time, when the caller is
\* threaded: each is at a statement of create_llm or of its constructor.
Threads == {1, 2}

Idle ==
    [pc |-> "idle", func |-> None, model |-> << >>, temperature |-> DefaultTemperature,
     host |-> None, written |-> << >>, read |-> << >>, llm |-> NoLLM, error |-> None]

Outcome(op, args, r) ==
    [op |-> op, args |-> args, llm |-> r.llm, error |-> r.error,
     trace |-> r.trace, written |-> r.written, read |-> r.read]

\* The session starts with the first load_secrets_fron_env(); initial keeps
\* the state it leaves.
InitWith(environments, files, import_envs) ==
    \E e \in environments, file \in files, import_env \in import_envs :
        LET st == load_secrets_fron_env([env |-> e, vars |-> NoSnapshot], file)
        IN  /\ environ = st.env
            /\ env_vars = st.vars
            /\ initial = st
            /\ calls = [t \in Threads |-> Idle]
            /\ models = ModelLists(import_env)
            /\ last = Outcome("load_secrets_fron_env", <<file>>,
                              Return(st, NoLLM, <<"load_secrets_fron_env">>, << >>, << >>))

\* The sessions of a process that sets neither OPENAI_PROXY_MODELS nor
\* OLLAMA_MODELS.
InitFrom(environments, files) == InitWith(environments, files, {<< >>})

Init == InitFrom(Environments, DotenvFiles)

CreateLlm ==
    \E provider_and_model \in Selectors, temperature \in Temperatures :
        LET r == create_llm(State, provider_and_model, temperature)
        IN  /\ environ' = r.st.env
            /\ env_vars' = r.st.vars
            /\ last' = Outcome("create_llm", <<provider_and_model, temperature>>, r)
            /\ UNCHANGED <<initial, calls, models>>

Next == CreateLlm

Spec == Init /\ [][Next]_vars

-----------------------------------------------------------------------------
(* The environment operations, called directly and in any order. *)

LoadSecrets ==
    \E file \in DotenvFiles :
        LET st == load_secrets_fron_env(State, file)
        IN  /\ environ' = st.env
            /\ env_vars' = st.vars
            /\ last' = Outcome("load_secrets_fron_env", <<file>>,
                               Return(st, NoLLM, <<"load_secrets_fron_env">>, << >>, << >>))
            /\ UNCHANGED <<initial, calls, models>>

SwitchEnvironment ==
    \E new_env_vars \in Overrides :
        LET st == switch_environment(State, new_env_vars)
        IN  /\ environ' = st.env
            /\ env_vars' = st.vars
            /\ last' = Outcome("switch_environment", <<new_env_vars>>,
                               Return(st, NoLLM, <<"switch_environment">>,
                                      Present(new_env_vars), << >>))
            /\ UNCHANGED <<initial, calls, models>>

\* read: the variables restore_environment finds set when it looks them up
\* to delete them (elif key in os.environ).
RestoreEnvironment ==
    LET st == restore_environment(State)
        absent == {n \in DOMAIN env_vars : env_vars[n] = None}
    IN  /\ environ' = st.env
        /\ env_vars' = st.vars
        /\ last' = Outcome("restore_environment", << >>,
                           Return(st, NoLLM, <<"restore_environment">>,
                                  Present(env_vars),
                                  [n \in {k \in absent : environ[k] # None} |-> environ[n]]))
        /\ UNCHANGED <<initial, calls, models>>

SafePopEnvVar ==
    \E key \in PoppedVars :
        LET st == safe_pop_env_var(State, key)
        IN  /\ environ' = st.env
            /\ env_vars' = st.vars
            /\ last' = Outcome("safe_pop_env_var", <<key>>,
                               Return(st, NoLLM, <<"safe_pop_env_var">>, << >>, << >>))
            /\ UNCHANGED <<initial, calls, models>>

NextEnv == LoadSecrets \/ SwitchEnvironment \/ RestoreEnvironment \/ SafePopEnvVar

InitEnv == InitFrom(PlainEnvironments, DotenvFiles)

SpecEnv == InitEnv /\ [][NextEnv]_vars

\* create_llm on a selector that llm_providers_and_models() lists.
CreateListedLlm ==
    \E k \in 1..Len(llm_providers_and_models(models)), temperature \in Temperatures :
        LET provider_and_model == llm_providers_and_models(models)[k]
            r == create_llm(State, provider_and_model, temperature)
        IN  /\ environ' = r.st.env
            /\ env_vars' = r.st.vars
            /\ last' = Outcome("create_llm", <<provider_and_model, temperature>>, r)
            /\ UNCHANGED <<initial, calls, models>>

NextListed == CreateListedLlm

\* The environments the listed selectors are tried in.
ListedEnvironments ==
    {e \in PlainEnvironments : e.OPENAI_API_BASE = None /\ e.OPENAI_API_KEY # ""}

InitListed == InitWith(ListedEnvironments, {<< >>}, ImportEnvironments)

SpecListed == InitListed /\ [][NextListed]_vars

\* create_llm and the operations that switch, restore and pop, in any order.
NextAll == CreateLlm \/ SwitchEnvironment \/ RestoreEnvironment \/ SafePopEnvVar

\* The sessions that start from a .env file with empty-string credentials.
InitBlank == InitFrom(PlainEnvironments, {BlankDotenv})

SpecAll == InitBlank /\ [][NextAll]_vars

-----------------------------------------------------------------------------
(* Two create_llm calls for OpenAI and Ollama that interleave at their
   statements: the switch, the reads of the environment, the construction of
   the client and the restore. *)

ThreadedSelectors == {OpenAI \o Sep \o <<"m">>, Ollama \o <<":", " ", "m">>}

\* create_llm up to the call of the constructor.
Begin(t) ==
    /\ calls[t].pc = "idle"
    /\ \E provider_and_model \in ThreadedSelectors, temperature \in Temperatures :
          LET parts == Split(provider_and_model, Sep)
              func == create_llm_func(parts[1])
          IN  calls' = [calls EXCEPT ![t] =
                          [Idle EXCEPT !.pc = IF func = "create_ollama_llm"
                                              THEN "host" ELSE "switch",
                                       !.func = func,
                                       !.model = parts[2],
                                       !.temperature = temperature]]
    /\ UNCHANGED <<environ, env_vars, last, initial, models>>

\* create_openai_llm: switch_environment({...})
OpenAISwitch(t) ==
    /\ calls[t].pc = "switch"
    /\ calls[t].func = "create_openai_llm"
    /\ LET new_env_vars == ("OPENAI_API_KEY" :> env_vars["OPENAI_API_KEY"]) @@
                           ("OPENAI_API_BASE" :> env_vars["OPENAI_API_BASE"])
           st == switch_environment(State, new_env_vars)
       IN  /\ environ' = st.env
           /\ env_vars' = st.vars
           /\ calls' = [calls EXCEPT ![t].pc = "read",
                                     ![t].written = Present(new_env_vars)]
    /\ UNCHANGED <<last, initial, models>>

\* create_openai_llm: api_key = os.getenv(...); api_base = os.getenv(...)
OpenAIRead(t) ==
    /\ calls[t].pc = "read"
    /\ calls' = [calls EXCEPT ![t].pc = "construct",
                              ![t].read =
                                  ("OPENAI_API_KEY" :> Getenv(environ, "OPENAI_API_KEY")) @@
                                  ("OPENAI_API_BASE" :> Getenv(environ, "OPENAI_API_BASE"))]
    /\ UNCHANGED <<environ, env_vars, last, initial, models>>

\* create_openai_llm: if api_key: return LLM(...) else: raise
OpenAIConstruct(t) ==
    /\ calls[t].pc = "construct"
    /\ calls[t].func = "create_openai_llm"
    /\ calls' = [calls EXCEPT ![t] =
         IF Truthy(calls[t].read["OPENAI_API_KEY"])
         THEN [@ EXCEPT !.pc = "restore",
                        !.llm = [class |-> "LLM", model |-> calls[t].model,
                                 temperature |-> calls[t].temperature,
                                 base_url |-> calls[t].read["OPENAI_API_BASE"]]]
         ELSE [@ EXCEPT !.pc = "done",
                        !.error = "OpenAI API key not set in .env file"]]
    /\ UNCHANGED <<environ, env_vars, last, initial, models>>

\* create_ollama_llm: host = st.session_state.env_vars["OLLAMA_HOST"]; if host:
OllamaHost(t) ==
    /\ calls[t].pc = "host"
    /\ calls' = [calls EXCEPT ![t] =
         IF Truthy(env_vars["OLLAMA_HOST"])
         THEN [@ EXCEPT !.pc = "switch", !.host = env_vars["OLLAMA_HOST"]]
         ELSE [@ EXCEPT !.pc = "done",
                        !.error = "Ollama Host is not set in .env file"]]
    /\ UNCHANGED <<environ, env_vars, last, initial, models>>

\* create_ollama_llm: switch_environment({...})
OllamaSwitch(t) ==
    /\ calls[t].pc = "switch"
    /\ calls[t].func = "create_ollama_llm"
    /\ LET new_env_vars == ("OPENAI_API_KEY" :> OllamaSentinel) @@
                           ("OPENAI_API_BASE" :> calls[t].host)
           st == switch_environment(State, new_env_vars)
       IN  /\ environ' = st.env
           /\ env_vars' = st.vars
           /\ calls' = [calls EXCEPT ![t].pc = "construct",
                                     ![t].written = Present(new_env_vars)]
    /\ UNCHANGED <<last, initial, models>>

\* create_ollama_llm: return LLM(...)
OllamaConstruct(t) ==
    /\ calls[t].pc = "construct"
    /\ calls[t].func = "create_ollama_llm"
    /\ calls' = [calls EXCEPT ![t].pc = "restore",
                              ![t].llm = [class |-> "LLM", model |-> calls[t].model,
                                          temperature |-> calls[t].temperature,
                                          base_url |-> calls[t].host]]
    /\ UNCHANGED <<environ, env_vars, last, initial, models>>

\* create_llm: restore_environment(); return llm
Restore(t) ==
    /\ calls[t].pc = "restore"
    /\ LET st == restore_environment(State)
       IN  /\ environ' = st.env
           /\ env_vars' = st.vars
    /\ calls' = [calls EXCEPT ![t].pc = "done"]
    /\ UNCHANGED <<last, initial, models>>

Step(t) ==
    \/ Begin(t)
    \/ OpenAISwitch(t) \/ OpenAIRead(t) \/ OpenAIConstruct(t)
    \/ OllamaHost(t) \/ OllamaSwitch(t) \/ OllamaConstruct(t)
    \/ Restore(t)

NextThreaded == \E t \in Threads : Step(t)

SpecThreaded == Init /\ [][NextThreaded]_vars

\* The same calls, one at a time: a call begins only when no other call is
\* under way.
NextOneAtATime ==
    \E t \in Threads :
        /\ \A u \in Threads \ {t} : calls[u].pc \in {"idle", "done"}
        /\ Step(t)

SpecOneAtATime == Init /\ [][NextOneAtATime]_vars

-----------------------------------------------------------------------------
(* Vocabulary of the properties *)

\* s contains the separator ": ".
HasSep(s) == \E i \in 1..(Len(s) - 1) : SubSeq(s, i, i + 1) = Sep

\* l records a call create_llm("P: model", t) with a model identifier that
\* holds no separator.
CallFor(l, P) ==
    /\ l.op = "create_llm"
    /\ StartsWith(l.args[1], P \o Sep)
    /\ ~HasSep(SubSeq(l.args[1], Len(P) + 3, Len(l.args[1])))

ModelOf(l, P) == SubSeq(l.args[1], Len(P) + 3, Len(l.args[1]))

Providers == DOMAIN LLM_CONFIG

\* The credential each provider requires.
RequiredCredential ==
    (OpenAI    :> "OPENAI_API_KEY") @@
    (Anthropic :> "ANTHROPIC_API_KEY") @@
    (Groq      :> "GROQ_API_KEY") @@
    (Google    :> "GOOGLE_API_KEY") @@
    (Ollama    :> "OLLAMA_HOST") @@
    (LMStudio  :> "LMSTUDIO_API_BASE")

\* The configuration error of each provider.
ConfigurationError ==
    (OpenAI    :> "OpenAI API key not set in .env file") @@
    (Anthropic :> "Anthropic API key not set in .env file") @@
    (Groq      :> "Groq API key not set in .env file") @@
    (Google    :> "Google API key not set in .env file") @@
    (Ollama    :> "Ollama Host is not set in .env file") @@
    (LMStudio  :> "LM Studio API base not set in .env file")

IsConfigurationError(error) == \E P \in Providers : error = ConfigurationError[P]

IsFormatError(error) == error \in {NotEnoughValues, TooManyValues}

\* The number of times function f occurs in a trace.
Count(trace, f) == Cardinality({i \in 1..Len(trace) : trace[i] = f})

-----------------------------------------------------------------------------
(* C1.  For every provider P of the registry and every state reached by
   earlier create_llm calls in which P's required credential is present (here
   even: present and not empty), create_llm("P: model") returns a client and
   leaves the process environment equal to the environment before the call. *)
C1_ReturnsAndPreservesEnvironment ==
    [][\A P \in Providers :
          (CallFor(last', P) /\ Truthy(env_vars[RequiredCredential[P]]))
          => (last'.llm # NoLLM /\ environ' = environ)]_vars

(* C2.  After create_llm for A, then create_llm for B (both returning, so the
   second has ended with restore_environment), no recognized credential
   variable of the environment holds a value that a construction injected
   (a sentinel key, a local host or base written into OPENAI_API_BASE),
   unless the initial snapshot already held that value for that variable. *)
Injected(n) ==
    IF n = "OPENAI_API_KEY" THEN {OllamaSentinel, LMStudioSentinel}
    ELSE IF n = "OPENAI_API_BASE"
         THEN {initial.vars["OLLAMA_HOST"], initial.vars["LMSTUDIO_API_BASE"]} \ {None}
         ELSE {}

NoInjectedValue ==
    \A n \in SnapshotKeys :
        environ[n] \in Injected(n) => environ[n] = initial.vars[n]

C2_NoTransientValueAfterTwoSelections ==
    [][(\E A \in Providers : CallFor(last, A) /\ last.llm # NoLLM)
       /\ (\E B \in Providers : CallFor(last', B) /\ last'.llm # NoLLM)
       => NoInjectedValue']_vars

(* C3.  In every state reached by earlier create_llm calls, if the chosen
   provider's required credential is absent from the snapshot, create_llm
   fails with that provider's configuration error and returns no client. *)
C3_AbsentCredentialRaises ==
    [][\A P \in Providers :
          (CallFor(last', P) /\ env_vars[RequiredCredential[P]] = None)
          => (last'.error = ConfigurationError[P] /\ last'.llm = NoLLM)]_vars

(* C4.  Two create_llm calls that interleave at their steps race: an
   interleaving is reachable (C4_ThreadsDoNotReadForeignValues is violated
   under SpecThreaded) in which one construction reads from the environment a value that it did
   not write and the other construction's switch wrote; and when the calls
   run strictly one at a time no construction reads from the environment a
   credential value that it did not write itself and that the preceding
   construction of another provider wrote with its switch. *)
ReadsForeignValue(reader, writer) ==
    \E n \in DOMAIN reader.read \cap DOMAIN writer.written :
        /\ reader.read[n] = writer.written[n]
        /\ n \notin DOMAIN reader.written

C4_SequentialCallsDoNotReadForeignValues ==
    [][\A A, B \in Providers :
          (A # B /\ CallFor(last, A) /\ CallFor(last', B))
          => ~ReadsForeignValue(last', last)]_vars

\* No call has read a value that the other call's switch wrote and that is
\* not the value it wrote itself.  Violated under SpecThreaded (the race
\* exists); holds under SpecOneAtATime, where only the OpenAI and Ollama
\* constructors run.
C4_ThreadsDoNotReadForeignValues ==
    \A t, u \in Threads :
        (t # u /\ calls[t].func # calls[u].func)
        => ~(\E n \in DOMAIN calls[t].read \cap DOMAIN calls[u].written :
                /\ calls[t].read[n] = calls[u].written[n]
                /\ n \in DOMAIN calls[t].written => calls[t].written[n] # calls[t].read[n])

(* C5.  In every create_llm call restore_environment runs exactly once, after
   the constructor, when the construction succeeds, and never when the
   constructor raises a configuration error; after such a failure the
   environment is the one before the call with the variables the constructor's
   switch wrote set to the written values, nothing reverted. *)
Constructors == {LLM_CONFIG[P].create_llm : P \in Providers}

C5_RestoreOnlyAfterSuccess ==
    [][last'.op = "create_llm" =>
          /\ last'.llm # NoLLM =>
                /\ Count(last'.trace, "restore_environment") = 1
                /\ last'.trace[Len(last'.trace)] = "restore_environment"
                /\ last'.trace[1] \in Constructors
          /\ IsConfigurationError(last'.error) =>
                /\ Count(last'.trace, "restore_environment") = 0
                /\ environ' = [n \in DOMAIN environ |->
                                 IF n \in DOMAIN last'.written
                                 THEN last'.written[n] ELSE environ[n]]]_vars

\* A constructor has written a variable and raised, and the environment
\* differs from the one restore_environment would leave.
C5_Witness ==
    /\ last.op = "create_llm"
    /\ IsConfigurationError(last.error)
    /\ DOMAIN last.written # {}
    /\ restore_environment(State).env # environ

(* C6.  A selector without the separator ": " makes create_llm fail with the
   format error, return no client and change neither the environment nor the
   snapshot. *)
C6_NoSeparatorIsFormatError ==
    [][(last'.op = "create_llm" /\ ~HasSep(last'.args[1]))
       => (/\ IsFormatError(last'.error)
           /\ last'.llm = NoLLM
           /\ environ' = environ
           /\ env_vars' = env_vars)]_vars

\* A call with a non-empty selector that names a provider but lacks the
\* separator has failed.
C6_Witness ==
    /\ last.op = "create_llm"
    /\ ~HasSep(last.args[1])
    /\ StartsWith(last.args[1], OpenAI)
    /\ last.error = NotEnoughValues

(* C7.  A selector "p: m" whose provider p is no key of LLM_CONFIG makes
   create_llm fail with the unknown-provider error without calling a
   constructor, switch_environment or restore_environment, and change neither
   the environment nor the snapshot. *)
NamesUnknownProvider(sel) ==
    \E i \in 1..(Len(sel) - 1) :
        /\ SubSeq(sel, i, i + 1) = Sep
        /\ ~HasSep(SubSeq(sel, 1, i - 1))
        /\ ~HasSep(SubSeq(sel, i + 2, Len(sel)))
        /\ SubSeq(sel, 1, i - 1) \notin Providers

C7_UnknownProviderIsRejected ==
    [][(last'.op = "create_llm" /\ NamesUnknownProvider(last'.args[1]))
       => (/\ last'.error = NotRecognized
           /\ last'.llm = NoLLM
           /\ last'.trace = << >>
           /\ environ' = environ
           /\ env_vars' = env_vars)]_vars

\* An unknown provider was rejected in a state where the environment and the
\* snapshot disagree, so that a switch or a restore would have shown.
C7_Witness ==
    /\ last.op = "create_llm"
    /\ NamesUnknownProvider(last.args[1])
    /\ last.error = NotRecognized
    /\ restore_environment(State).env # environ

(* C8.  When the OpenAI API key is present (here even: not empty) and
   OPENAI_API_BASE was not defined when the snapshot was taken, then in any
   state reached by earlier create_llm calls create_llm("OpenAI: m", t)
   returns a client with model m, temperature t and the default base URL. *)
C8_OpenAIClientUsesDefaultBase ==
    [][(CallFor(last', OpenAI)
        /\ Truthy(env_vars["OPENAI_API_KEY"])
        /\ initial.env["OPENAI_API_BASE"] = None)
       => last'.llm = [class |-> "LLM", model |-> ModelOf(last', OpenAI),
                       temperature |-> last'.args[2],
                       base_url |-> DefaultApiBase]]_vars

(* C9.  switch_environment(overrides): for every pair whose value is present,
   afterwards the environment variable and the snapshot entry of that name
   equal the value; for every pair whose value is absent and every name not
   in overrides, the environment variable and the snapshot entry are as they
   were before the call. *)
C9_SwitchSetsPresentAndSkipsAbsent ==
    [][last'.op = "switch_environment" =>
          LET overrides == last'.args[1]
          IN  \A n \in EnvNames :
                 IF n \in DOMAIN overrides /\ overrides[n] # None
                 THEN /\ environ'[n] = overrides[n]
                      /\ n \in DOMAIN env_vars'
                      /\ env_vars'[n] = overrides[n]
                 ELSE /\ environ'[n] = environ[n]
                      /\ (n \in DOMAIN env_vars') = (n \in DOMAIN env_vars)
                      /\ n \in DOMAIN env_vars => env_vars'[n] = env_vars[n]]_vars

\* A direct switch with one present and one absent pair has run, and the
\* variable of the absent pair is still set.
C9_Witness ==
    /\ last.op = "switch_environment"
    /\ \E n, m \in DOMAIN last.args[1] :
          /\ last.args[1][n] # None
          /\ environ[n] = last.args[1][n]
          /\ last.args[1][m] = None
          /\ environ[m] # None

(* C10.  After restore_environment(), for every name of the snapshot the
   environment agrees with the snapshot: the variable equals the snapshot
   value when that value is present and is not set when it is absent. *)
C10_RestoreMakesEnvironmentAgree ==
    last.op = "restore_environment" =>
        \A n \in DOMAIN env_vars :
            IF env_vars[n] # None
            THEN environ[n] = env_vars[n]
            ELSE environ[n] = None

\* A restore has deleted a variable that was set while its snapshot entry
\* is absent, and has set another one.
C10_Witness ==
    /\ last.op = "restore_environment"
    /\ DOMAIN last.read # {}
    /\ DOMAIN last.written # {}
    /\ \A n \in DOMAIN last.read : environ[n] = None

(* C11.  Once the snapshot exists, a further call of load_secrets_fron_env
   changes neither the snapshot nor the process environment, whatever the
   .env file holds at that time. *)
C11_ReloadIsNoOp ==
    [][last'.op = "load_secrets_fron_env"
       => (environ' = environ /\ env_vars' = env_vars)]_vars

(* C12.  As stated: create_llm fails with the format error only if the
   separator is absent; every selector that contains the separator, also one
   whose model identifier contains ": ", is parsed and passed on to the
   registry lookup. *)
C12_SeparatorPresentIsParsed ==
    [][(last'.op = "create_llm" /\ HasSep(last'.args[1]))
       => ~IsFormatError(last'.error)]_vars

\* The places of s where the separator starts (two of them never overlap).
SepPlaces(s) == {i \in 1..(Len(s) - 1) : SubSeq(s, i, i + 1) = Sep}

(* C12, amended.  create_llm fails with the format error exactly when the
   selector does not hold the separator exactly once (it is absent, or it
   occurs again, as in a model identifier that contains ": "); a selector
   with exactly one separator is split into the provider name before it and
   the model identifier after it and passed on to the registry lookup: the
   constructor of a registered provider is called with that model, an
   unregistered provider is rejected. *)
C12_ExactlyOneSeparatorIsParsed ==
    [][last'.op = "create_llm" =>
          LET sel == last'.args[1]
          IN  /\ IsFormatError(last'.error) <=> Cardinality(SepPlaces(sel)) # 1
              /\ Cardinality(SepPlaces(sel)) = 1 =>
                    LET i == CHOOSE j \in SepPlaces(sel) : TRUE
                        provider == SubSeq(sel, 1, i - 1)
                        model == SubSeq(sel, i + 2, Len(sel))
                    IN  IF provider \in Providers
                        THEN /\ last'.trace # << >>
                             /\ last'.trace[1] = LLM_CONFIG[provider].create_llm
                             /\ last'.llm.class = "LLM" => last'.llm.model = model
                        ELSE last'.error = NotRecognized]_vars

\* A selector with the separator twice has been refused.
C12_Witness ==
    /\ last.op = "create_llm"
    /\ Cardinality(SepPlaces(last.args[1])) = 2
    /\ last.error = TooManyValues

(* C13.  An empty-string credential and the operations that do treat it as
   present: switch_environment sets the variable and the snapshot entry to
   the empty string, restore_environment sets the variable to it. *)
EmptyIsPresentToSwitchAndRestore ==
    /\ last'.op = "switch_environment" =>
          \A n \in DOMAIN last'.args[1] :
              last'.args[1][n] = "" =>
                  (environ'[n] = "" /\ n \in DOMAIN env_vars' /\ env_vars'[n] = "")
    /\ last'.op = "restore_environment" =>
          \A n \in DOMAIN env_vars : env_vars[n] = "" => environ'[n] = ""

(* C13.  As stated: an empty-string credential is treated as present by every
   operation; in particular a provider constructor whose required credential
   is the empty string does not report it as missing. *)
C13_EmptyIsPresentEverywhere ==
    [][/\ EmptyIsPresentToSwitchAndRestore
       /\ \A P \in Providers :
             (CallFor(last', P) /\ env_vars[RequiredCredential[P]] = "")
             => last'.error # ConfigurationError[P]]_vars

(* C13, amended.  switch_environment and restore_environment treat an
   empty-string credential as present (they set it, mirror it and do not
   remove the variable); a provider constructor treats an empty-string
   required credential like an absent one: it raises its configuration error
   and returns no client. *)
C13_EmptyIsPresentExceptToConstructors ==
    [][/\ EmptyIsPresentToSwitchAndRestore
       /\ \A P \in Providers :
             (CallFor(last', P) /\ env_vars[RequiredCredential[P]] = "")
             => (last'.error = ConfigurationError[P] /\ last'.llm = NoLLM)]_vars

\* A constructor has raised on a required credential that is the empty string.
C13_Witness ==
    /\ last.op = "create_llm"
    /\ \E P \in Providers :
          /\ CallFor(last, P)
          /\ env_vars[RequiredCredential[P]] = ""
          /\ last.error = ConfigurationError[P]

(* C14.  A create_llm call that fails (format error, unknown provider or the
   configuration error of any constructor) leaves the snapshot as it was
   before the call. *)
C14_FailedCallKeepsSnapshot ==
    [][(last'.op = "create_llm" /\ last'.error # None)
       => env_vars' = env_vars]_vars

(* C15.  restore_environment() is idempotent and framed: a second restore
   right after one changes nothing more, a restore never changes the
   snapshot, and it neither changes nor removes a variable whose name is not
   a key of the snapshot. *)
C15_RestoreIsIdempotentAndFramed ==
    [][last'.op = "restore_environment" =>
          /\ restore_environment(State') = State'
          /\ env_vars' = env_vars
          /\ \A n \in EnvNames \ DOMAIN env_vars : environ'[n] = environ[n]]_vars

\* A restore has set one variable and deleted another while a variable that
\* the snapshot does not name is set.
C15_Witness ==
    /\ last.op = "restore_environment"
    /\ DOMAIN last.written # {}
    /\ \E n \in DOMAIN last.read : environ[n] = None
    /\ \E n \in EnvNames \ DOMAIN env_vars : environ[n] # None

(* C16.  Every selector that llm_providers_and_models() returns round-trips
   through the parsing of create_llm: it splits into exactly the provider and
   the model it was built from, the provider is a key of the registry, and
   create_llm on it raises neither a format error nor the unknown-provider
   error; for every content of the registry, the model lists taken from
   OPENAI_PROXY_MODELS and OLLAMA_MODELS included. *)
C16_ListedSelectorsRoundTrip ==
    [][last'.op = "create_llm" =>
          LET pairs == ProviderModelPairs(models, 1)
              listed == llm_providers_and_models(models)
          IN  /\ \A k \in 1..Len(listed) :
                    /\ Split(listed[k], Sep) = pairs[k]
                    /\ pairs[k][1] \in DOMAIN LLM_CONFIG
              /\ ~IsFormatError(last'.error)
              /\ last'.error # NotRecognized]_vars

====
